---- MODULE Spec2Model ----
(***************************************************************************)
(* The scope profiler of parca-agent (pkg/profiler/profiler.go): the Run   *)
(* loop of a CgroupProfiler, one profiling cycle (profileLoop), the        *)
(* clearing of the two sampler maps (bpfMaps.clean), Stop, and the         *)
(* in-kernel sampler that fills the maps while the agent reads them.       *)
(***************************************************************************)
EXTENDS Integers, Sequences, FiniteSets, TLC

\* ------------------------------------------------------------------ bounds
\* Slots of one stack trace in the model (the program uses 127).
stackDepth == 2
\* CPUs of the host (runtime.NumCPU()).
NumCPU == 2
\* Sampler events (one sampled stack each) in one behaviour.
MaxSamplerOps == 1
\* Ticks of the profiling ticker in one behaviour.
MaxTicks == 2
\* Tuples in the counts map when one cycle is followed from any content of
\* the maps.
MaxTuples == 3
\* Tuples in the counts map when the profile of one cycle is followed for any
\* processes.
MaxBuildTuples == 2
MaxNameLen == 3
MaxLabels == 2

doubleStackDepth == 2 * stackDepth

\* ---------------------------------------------------------------- universes
Pids == {1, 2}
\* The processes the sampler sees in the profiled cgroup.
SampledPids == {1}
\* Stack ids the sampler hands out; a negative id in a key means "no stack".
Sids == {0, 1}
UserSids == {-1, 0}
KernelSids == {-1, 1}
\* A counts key: <<pid, user_sid, kernel_sid>> (12 bytes in the program).
CountKeys == Pids \X UserSids \X KernelSids
\* Frames of the stacks the sampler records, innermost first.
FrameLists == {<<>>, <<1>>}
\* Counts of a tuple when one cycle is followed from any content of the maps.
CountValues == {1, 2}

\* A stack trace value: the frames, zero-padded to stackDepth slots.
PadStack(frames) ==
    [i \in 1..stackDepth |-> IF i <= Len(frames) THEN frames[i] ELSE 0]

SampledStacks == {PadStack(f) : f \in FrameLists}

ZeroStack == [i \in 1..stackDepth |-> 0]

\* The absent key of an iterator or of prev ([]byte(nil)); a present key k
\* is held as <<k>>.
Nil == <<>>

\* -------------------------------------------------------------- map helpers
\* Position of a key in the map's iteration order.
SidRank == [s \in Sids |-> s]

KeyRank == [k \in CountKeys |-> (k[1] * 16) + ((k[2] + 1) * 4) + (k[3] + 1)]

\* bpf_map_get_next_key as the iterator's Next() uses it: from the absent
\* key, or from a key that is no longer in the map, the first key; otherwise
\* the key that follows cur.  Nil when there is none (ENOENT).
NextKey(dom, cur, Rank) ==
    LET from == IF cur = Nil \/ cur[1] \notin dom
                THEN dom
                ELSE {k \in dom : Rank[k] > Rank[cur[1]]}
    IN  IF from = {} THEN Nil
        ELSE <<CHOOSE k \in from : \A j \in from : Rank[k] <= Rank[j]>>

\* DeleteKey on a map held as a function.
Remove(f, k) == [x \in (DOMAIN f) \ {k} |-> f[x]]

\* Update (insert or overwrite) of one entry.
Put(f, k, v) == [x \in (DOMAIN f) \cup {k} |-> IF x = k THEN v ELSE f[x]]

EmptyMap == [x \in {} |-> 0]

RECURSIVE SumOver(_, _)
SumOver(f, S) ==
    IF S = {} THEN 0
    ELSE LET x == CHOOSE y \in S : TRUE
         IN  f[x] + SumOver(f, S \ {x})

Sum(f) == SumOver(f, DOMAIN f)

\* ------------------------------------------------------------------- state
VARIABLES
    \* the sampler maps (bpfMaps)
    counts,            \* counts: key -> count
    stackTraces,       \* stack_traces: stack id -> stack
    \* bpfMaps.clean
    cleanIt,           \* the iterator's current key, Nil before the first Next
    prev,              \* prev
    cleanErr,          \* the error clean returned: "none", "stack", "count"
    \* CgroupProfiler.Run
    pc,                \* where Run is
    cancel,            \* p.cancel # nil
    ctxDone,           \* the cancellation signal of Run's context
    stopped,           \* Stop has returned
    registered,        \* missingStacks is registered
    cpu,               \* i of the perf-event loop
    module,            \* the bpf module: "none", "open", "loaded", "closed"
    cgroup,            \* the cgroup directory: "none", "open", "closed"
    perfFds,           \* cpu -> "open", "attached", "closed"
    tickPending,       \* a tick waits in ticker.C
    ticks,             \* ticks delivered so far
    runErr,            \* what Run returned
    lastError,         \* p.lastError
    lastProfileTakenAt,\* p.lastProfileTakenAt (the cycle number, 0 = zero time)
    failedBefore,      \* an upload or a clean of an earlier cycle has failed
    \* CgroupProfiler.profileLoop
    cycle,             \* profileLoop calls so far (the capture time)
    it,                \* the counts iterator's current key
    samples,           \* samples: combined stack -> value
    missingStacks,     \* the missing_stacks counter, by type
    loopErr,           \* the error profileLoop returns
    inFlight,          \* a WriteRaw request is out
    sendErr,           \* the last sendProfile failed
    locations,         \* locations
    kernelLocations,   \* kernelLocations: the indices of the kernel locations
    kernelAddresses,   \* kernelAddresses
    locationIndices,   \* locationIndices: <<pid or 0, addr>> -> index
    userFunctions,     \* userFunctions: <<pid, addr>> -> function
    kernelFunctions,   \* kernelFunctions: addr -> function
    sampleLocation,    \* combined stack -> the Location list of its sample
    mappingSeen,       \* the mappings the cycle's mapping cache has handed out
    prof,              \* prof
    \* the processes as /proc and the perf maps show them
    procfs,
    \* the labels
    target,            \* p.target: label name -> value
    labels,            \* the labels of the series sendProfile writes
    \* the /active-profilers handler of main
    request,           \* the request served: its selector and its debug parameter
    hpc,               \* "idle", "start", "wait" (in NextMatchingProfile), "done"
    elapsed,           \* seconds since the wait began
    result,            \* what NextMatchingProfile returned
    responses,         \* what the handler wrote for the request
    \* the sampler
    samplerOps,        \* sampler events so far
    \* bookkeeping of one cycle and of one clean call, read by the properties
    drained,           \* key -> the count the drain read for it in this cycle
    dropped,           \* counts carried by the tuples dropped, by type
    lost,              \* increments this clean call deleted that the drain had not read
    cleanStart,        \* the keys of both maps when clean was called
    deletes,           \* the DeleteKey calls of this clean call, in order
    seen,              \* the keys the iterators of this clean call returned
    events             \* the steps of this cycle, in order

mapVars   == <<counts, stackTraces>>
cleanVars == <<cleanIt, prev, cleanErr>>
runVars   == <<cancel, ctxDone, stopped, registered, cpu, module, cgroup, perfFds,
               tickPending, ticks, runErr, lastError,
               lastProfileTakenAt, failedBefore>>
buildVars == <<locations, kernelLocations, kernelAddresses, locationIndices,
               userFunctions, kernelFunctions, sampleLocation, mappingSeen, prof>>
loopVars  == <<cycle, it, samples, missingStacks, loopErr, inFlight, sendErr, buildVars>>
cycleHist == <<drained, dropped>>
cleanHist == <<cleanStart, deletes, seen>>
httpVars  == <<request, hpc, elapsed, result, responses>>
vars      == <<mapVars, cleanVars, pc, runVars, loopVars, procfs, target, labels, httpVars,
               samplerOps, cycleHist,
               lost, cleanHist, events>>

\* ------------------------------------------------- CgroupProfiler.Labels
\* Label names are strings of characters; "__name__" is the metric name label.
Chars == {"_", "a"}

LabelNames == UNION {[1..n -> Chars] : n \in 1..MaxNameLen}

NameLabel == <<"_", "_", "n", "a", "m", "e", "_", "_">>

LabelValues == {"x", "y"}

\* The subsets of S with n elements at most.
RECURSIVE SubsetsUpTo(_, _)
SubsetsUpTo(S, n) ==
    IF n = 0 THEN {{}}
    ELSE LET smaller == SubsetsUpTo(S, n - 1)
         IN  smaller \cup {T \cup {x} : T \in smaller, x \in S}

\* The label sets a scope may carry.
Targets ==
    UNION {[S -> LabelValues] : S \in SubsetsUpTo(LabelNames \cup {NameLabel}, MaxLabels)}

\* The labels of the scope the profiler of the other specifications is for.
ScopeTarget == [n \in {<<"a">>, <<"_", "_", "a">>} |-> "x"]

\* No label set: sendProfile is not running.
NoLabels == <<>>

\* strings.HasPrefix(s, prefix)
HasPrefix(s, prefix) ==
    Len(s) >= Len(prefix) /\ SubSeq(s, 1, Len(prefix)) = prefix

\* (the slip of copying every label of the target)
LabelsCopiesAll ==
    [n \in {NameLabel} \cup DOMAIN target |->
        IF n \in DOMAIN target THEN target[n] ELSE "parca_agent_cpu"]

\* Labels(): "__name__" set to "parca_agent_cpu", and every label of the
\* target whose name does not start with "__".
Labels ==
    LET kept == {n \in DOMAIN target : ~HasPrefix(n, <<"_", "_">>)}
    IN  [n \in {NameLabel} \cup kept |->
            IF n \in kept THEN target[n] ELSE "parca_agent_cpu"]

\* ------------------------------------------- main: /active-profilers
\* time.Second*11 of context.WithTimeout, in seconds
RequestTimeout == 11

StatusOK == 200
StatusBadRequest == 400
StatusNotFound == 404
StatusInternalServerError == 500

\* A request: whether ParseMetricSelector takes its query, and its debug
\* parameter.
Requests == [selector : {"ok", "bad"}, debug : {"", "0", "1"}]

NoRequest == <<>>

NoResult == <<>>

\* The errors NextMatchingProfile may return; "nil" is no error.
WaitErrors == {"nil", "context canceled", "context deadline exceeded", "other"}

\* m.NextMatchingProfile(ctx, matchers), returning after waited seconds: a
\* profile (held as <<p>>) or nil, and an error or nil.  The deadline ends
\* the wait when it has elapsed, with no profile.
NextMatchingProfile(waited) ==
    {r \in [profile : {Nil, <<"profile">>}, err : WaitErrors] :
        r.err = "context deadline exceeded" =>
            (waited = RequestTimeout /\ r.profile = Nil)}

\* No request is being served.
HandlerIdle ==
    /\ request = NoRequest
    /\ hpc = "idle"
    /\ elapsed = 0
    /\ result = NoResult
    /\ responses = <<>>

\* (the slip of testing the error before the profile and the cancellation)
RespondErrorFirst(r, debug) ==
    IF r.err \notin {"nil", "context canceled"}
    THEN [status |-> StatusInternalServerError, contentType |-> "text/plain", body |-> "error"]
    ELSE IF r.profile = Nil \/ r.err = "context canceled"
    THEN [status |-> StatusNotFound, contentType |-> "text/plain", body |-> "error"]
    ELSE IF debug = "1"
    THEN [status |-> StatusOK, contentType |-> "text/html", body |-> "html"]
    ELSE [status |-> StatusOK, contentType |-> "application/vnd.google.protobuf+gzip",
          body |-> "pprof"]

\* What the handler writes after NextMatchingProfile has returned r.
Respond(r, debug) ==
    IF r.profile = Nil \/ r.err = "context canceled"
    THEN [status |-> StatusNotFound, contentType |-> "text/plain", body |-> "error"]
    ELSE IF r.err # "nil"
    THEN [status |-> StatusInternalServerError, contentType |-> "text/plain", body |-> "error"]
    ELSE IF debug = "1"
    THEN [status |-> StatusOK, contentType |-> "text/html", body |-> "html"]
    ELSE [status |-> StatusOK, contentType |-> "application/vnd.google.protobuf+gzip",
          body |-> "pprof"]

\* The variables of the profiler, which the handler leaves alone.
profilerVars == <<mapVars, cleanVars, pc, runVars, loopVars, procfs, target, labels,
                  samplerOps, cycleHist, lost, cleanHist, events>>

\* The handler parses the selector: a selector that does not parse is
\* answered with 400, another one starts the wait for a profile.
HandlerParse ==
    /\ hpc = "start"
    /\ IF request.selector = "bad"
       THEN /\ responses' = Append(responses,
                                   [status |-> StatusBadRequest, contentType |-> "text/plain",
                                    body |-> "error"])
            /\ hpc' = "done"
       ELSE /\ hpc' = "wait"
            /\ UNCHANGED responses
    /\ UNCHANGED <<request, elapsed, result, profilerVars>>

\* A second of the wait passes.
SecondPasses ==
    /\ hpc = "wait"
    /\ elapsed < RequestTimeout
    /\ elapsed' = elapsed + 1
    /\ UNCHANGED <<request, hpc, result, responses, profilerVars>>

\* NextMatchingProfile returns and the handler writes its answer.
HandlerRespond ==
    /\ hpc = "wait"
    /\ \E r \in NextMatchingProfile(elapsed) :
         /\ result' = r
         /\ responses' = Append(responses, Respond(r, request.debug))
    /\ hpc' = "done"
    /\ UNCHANGED <<request, elapsed, profilerVars>>

\* ------------------------------------------- profileLoop: the profile builder
\* What /proc and /tmp show of a process, as far as the builder asks:
\* whether a mapping covers the sampled address and how far the way to its
\* normalized address gets, and whether the process has a perf map with a
\* symbol for the address.
MappingStates == {"absent", "no_objfile", "no_addr", "ok"}
PerfMapStates == {"none", "nosym", "sym"}
ProcStates == [mapping : MappingStates, perfmap : PerfMapStates]

\* Processes with their mappings, object files and perf maps in place.
SettledProcs == [pid \in Pids |-> [mapping |-> "ok", perfmap |-> "sym"]]

\* prof as profileLoop creates it: no samples, mappings, locations, functions.
NoProfile == [Sample |-> <<>>, Mapping |-> <<>>, Location |-> <<>>, Function |-> <<>>]

\* kernelMapping (its ID is set when the profile is put together)
kernelMapping == [File |-> "[kernel.kallsyms]", PID |-> 0]

\* mapping.PIDAddrMapping(pid, addr): the mapping that covers addr, or nil.
PIDAddrMapping(pid, addr) ==
    IF procfs[pid].mapping = "absent" THEN Nil ELSE <<[File |-> "exe", PID |-> pid]>>

\* objFile.ObjAddr(addr): the address inside the object file.
ObjAddr(addr) == addr + 8

\* (the slip of numbering the locations from 0)
LocationIDZeroBased(locationIndex) == locationIndex

\* ID: uint64(locationIndex + 1)
LocationID(locationIndex) == locationIndex + 1

\* The interning structures of a cycle while one tuple is handled, with the
\* sampleLocations of the tuple.
BuildState ==
    [locations |-> locations, kernelLocations |-> kernelLocations,
     kernelAddresses |-> kernelAddresses, locationIndices |-> locationIndices,
     userFunctions |-> userFunctions, mappingSeen |-> mappingSeen,
     sampleLocations |-> <<>>]

\* One nonzero address of the kernel half: its location is looked up under
\* <<0, addr>>, created if it is not there, and appended to sampleLocations.
KernelLocation(b, addr) ==
    LET key == <<0, addr>>
    IN  IF key \in DOMAIN b.locationIndices
        THEN [b EXCEPT !.sampleLocations = Append(@, b.locationIndices[key])]
        ELSE LET locationIndex == Len(b.locations)
                 l == [ID |-> LocationID(locationIndex), Address |-> addr,
                       Mapping |-> <<kernelMapping>>, Line |-> Nil]
             IN  [b EXCEPT !.locations = Append(@, l),
                           !.kernelLocations = Append(@, locationIndex),
                           !.kernelAddresses = @ \cup {addr},
                           !.locationIndices = Put(@, key, locationIndex),
                           !.sampleLocations = Append(@, locationIndex)]

\* (the slip of looking a user location up under its address alone)
UserLocationOfAnyPid(b, pid, addr, perfMap) ==
    LET key == <<pid, addr>>
        same == {other \in DOMAIN b.locationIndices : other[1] # 0 /\ other[2] = addr}
    IN  IF same # {}
        THEN [b EXCEPT !.sampleLocations =
                           Append(@, b.locationIndices[CHOOSE other \in same : TRUE])]
        ELSE LET locationIndex == Len(b.locations)
                 m == PIDAddrMapping(pid, addr)
                 l == [ID |-> LocationID(locationIndex),
                       Address |-> IF procfs[pid].mapping = "ok" THEN ObjAddr(addr) ELSE addr,
                       Mapping |-> m, Line |-> Nil]
             IN  [b EXCEPT !.locations = Append(@, l),
                           !.locationIndices = Put(@, key, locationIndex),
                           !.mappingSeen = IF m = Nil THEN @ ELSE @ \cup {m[1]},
                           !.sampleLocations = Append(@, locationIndex)]

\* One nonzero address of the user half: its location is looked up under
\* <<pid, addr>>; a new one gets the mapping of the address, the normalized
\* address when the object file gives one, and the JIT function of the perf
\* map when there is one.
UserLocation(b, pid, addr, perfMap) ==
    LET key == <<pid, addr>>
    IN  IF key \in DOMAIN b.locationIndices
        THEN [b EXCEPT !.sampleLocations = Append(@, b.locationIndices[key])]
        ELSE LET locationIndex == Len(b.locations)
                 m == PIDAddrMapping(pid, addr)
                 objFile == m # Nil /\ procfs[pid].mapping \in {"no_addr", "ok"}
                 normalizedAddr == IF objFile /\ procfs[pid].mapping = "ok"
                                   THEN ObjAddr(addr) ELSE addr
                 fns == IF /\ perfMap
                           /\ key \notin DOMAIN b.userFunctions
                           /\ procfs[pid].perfmap = "sym"
                        THEN Put(b.userFunctions, key, [Name |-> "jit", ID |-> 0])
                        ELSE b.userFunctions
                 l == [ID |-> LocationID(locationIndex), Address |-> normalizedAddr,
                       Mapping |-> m,
                       Line |-> IF perfMap /\ key \in DOMAIN fns THEN <<key>> ELSE Nil]
             IN  [b EXCEPT !.locations = Append(@, l),
                           !.locationIndices = Put(@, key, locationIndex),
                           !.userFunctions = fns,
                           !.mappingSeen = IF m = Nil THEN @ ELSE @ \cup {m[1]},
                           !.sampleLocations = Append(@, locationIndex)]

\* for _, addr := range stack[stackDepth:]
RECURSIVE CollectKernel(_, _, _)
CollectKernel(b, stack, i) ==
    IF i > doubleStackDepth THEN b
    ELSE CollectKernel(IF stack[i] # 0 THEN KernelLocation(b, stack[i]) ELSE b,
                       stack, i + 1)

\* for _, addr := range stack[:stackDepth]
RECURSIVE CollectUser(_, _, _, _, _)
CollectUser(b, pid, stack, i, perfMap) ==
    IF i > stackDepth THEN b
    ELSE CollectUser(IF stack[i] # 0 THEN UserLocation(b, pid, stack[i], perfMap) ELSE b,
                     pid, stack, i + 1, perfMap)

\* (the slip of collecting the user half before the kernel half)
SampleLocationsUserFirst(pid, stack) ==
    CollectKernel(CollectUser(BuildState, pid, stack, 1, procfs[pid].perfmap # "none"),
                  stack, stackDepth + 1)

\* The locations of a new sample: the kernel half first, then the user half.
SampleLocations(pid, stack) ==
    CollectUser(CollectKernel(BuildState, stack, stackDepth + 1),
                pid, stack, 1, procfs[pid].perfmap # "none")

\* The orders a range over a Go map may take.
Perms(S) ==
    {f \in [1..Cardinality(S) -> S] : \A i, j \in 1..Cardinality(S) : f[i] = f[j] => i = j}

\* for _, s := range samples { prof.Sample = append(prof.Sample, s) }
ProfSample(order) ==
    [i \in DOMAIN order |->
        [Value |-> samples[order[i]], Location |-> sampleLocation[order[i]]]]

\* mapping.AllMappings(): the mappings handed out in this cycle, numbered
\* from 1.
AllMappings ==
    [i \in 1..Cardinality(mappingSeen) |->
        LET m == CHOOSE x \in mappingSeen :
                     Cardinality({y \in mappingSeen : y.PID < x.PID}) = i - 1
        IN  [ID |-> i, File |-> m.File, PID |-> m.PID]]

\* (the slip of putting the kernel mapping in front of the list)
KernelMappingFirst(mappings) ==
    <<[ID |-> Len(mappings) + 1, File |-> kernelMapping.File, PID |-> kernelMapping.PID]>>
        \o mappings

\* (the slip of leaving the kernel mapping out of the profile)
KernelMappingForgotten(mappings) == mappings

\* kernelMapping.ID = len(prof.Mapping) + 1; prof.Mapping = append(prof.Mapping, kernelMapping)
AppendKernelMapping(mappings) ==
    Append(mappings, [ID |-> Len(mappings) + 1, File |-> kernelMapping.File,
                      PID |-> kernelMapping.PID])

\* The kernel functions: one per address of the kernel locations, named as
\* the resolution says, "not found" when it has no name.
KernelFunctionNames(kernelSymbols) ==
    [a \in {locations[i + 1].Address : i \in {kernelLocations[j] : j \in DOMAIN kernelLocations}} |->
        IF kernelSymbols[a] = "" THEN "not found" ELSE kernelSymbols[a]]

\* l.Line = []profile.Line{{Function: kernelFunction}} for the kernel locations
WithKernelLines ==
    [i \in DOMAIN locations |->
        IF (i - 1) \in {kernelLocations[j] : j \in DOMAIN kernelLocations}
        THEN [locations[i] EXCEPT !.Line = <<<<0, locations[i].Address>>>>]
        ELSE locations[i]]

\* for _, f := range fns { f.ID = uint64(len(prof.Function)) + 1;
\*                          prof.Function = append(prof.Function, f) }
\* over the functions of the keys in order, named by names.
RECURSIVE AppendFunctions(_, _, _)
AppendFunctions(functions, order, names) ==
    IF order = <<>> THEN functions
    ELSE AppendFunctions(
            Append(functions, [ID |-> Len(functions) + 1, Name |-> names[Head(order)],
                               key |-> Head(order)]),
            Tail(order), names)

\* prof.Function: the kernel functions in the order kOrder, then the user
\* functions in the order uOrder.
ProfFunction(names, kOrder, uOrder) ==
    AppendFunctions(
        AppendFunctions(<<>>, [i \in DOMAIN kOrder |-> <<0, kOrder[i]>>],
                        [key \in {<<0, a>> : a \in DOMAIN names} |-> names[key[2]]]),
        uOrder,
        [key \in DOMAIN userFunctions |-> userFunctions[key].Name])

\* The ID the function of key has in functions.
FunctionIDOf(functions, key) ==
    functions[CHOOSE i \in DOMAIN functions : functions[i].key = key].ID

\* ------------------------------------------------------------ bpfMaps.clean
\* (the slip of deleting the key the iterator stands on)
DeleteTargetCurrent(p, cur) == cur

\* The key the loop body deletes once the iterator has advanced: prev.
DeleteTarget(p, cur) == p

\* (the slip of leaving out the delete that follows the loop)
FinalDeleteForgotten(p) == FALSE

\* The trailing "if prev != nil" of each loop: the last key is deleted after
\* the iteration ended.
FinalDelete(p) == p # Nil

\* (the slip of logging a failed DeleteKey and going on)
IgnoresDeleteError == FALSE

\* A failed DeleteKey makes clean return at once.
ReturnsOnDeleteError == TRUE

\* The outcomes of DeleteKey(k): it fails on a key that is not in the map, and
\* may fail on one that is (the syscall's error).
DeleteOutcomes(dom, k) == IF k \in dom THEN {"ok", "error"} ELSE {"error"}

\* The count an increment-carrying key loses when clean deletes it: what the
\* sampler added since the drain of this cycle read it.
Unread(k) == counts[k] - (IF k \in DOMAIN drained THEN drained[k] ELSE 0)

Logged(m, k, cur, r) ==
    Append(deletes, [map |-> m, key |-> k, cur |-> cur, ok |-> (r = "ok")])

\* One turn of "for it.Next()" over stack_traces: the iterator advances to
\* key n, then prev (if any) is deleted, then prev becomes n.
CleanStackTracesNext ==
    /\ pc = "clean_stacks"
    /\ LET n == NextKey(DOMAIN stackTraces, cleanIt, SidRank)
       IN  /\ n # Nil
           /\ cleanIt' = n
           /\ seen' = Append(seen, <<"stack", n[1]>>)
           /\ IF prev = Nil
              THEN /\ prev' = n
                   /\ UNCHANGED <<stackTraces, cleanErr, pc, deletes>>
              ELSE LET k == DeleteTarget(prev, n)[1]
                   IN  \E r \in DeleteOutcomes(DOMAIN stackTraces, k) :
                         /\ deletes' = Logged("stack", k, n, r)
                         /\ IF r = "ok"
                            THEN /\ stackTraces' = Remove(stackTraces, k)
                                 /\ prev' = n
                                 /\ UNCHANGED <<cleanErr, pc>>
                            ELSE IF ReturnsOnDeleteError
                            THEN /\ cleanErr' = "stack"
                                 /\ pc' = "report"
                                 /\ UNCHANGED <<stackTraces, prev>>
                            ELSE /\ prev' = n
                                 /\ UNCHANGED <<stackTraces, cleanErr, pc>>
    /\ events' = IF pc' = "report" THEN Append(events, "clear_return") ELSE events
    /\ UNCHANGED <<counts, runVars, loopVars, samplerOps, procfs, httpVars, target, labels, cycleHist, lost, cleanStart>>

\* it.Next() returns false on stack_traces: the last key is deleted, and the
\* counts loop starts with a fresh iterator.
CleanStackTracesEnd ==
    /\ pc = "clean_stacks"
    /\ NextKey(DOMAIN stackTraces, cleanIt, SidRank) = Nil
    /\ IF ~FinalDelete(prev)
       THEN /\ pc' = "clean_counts"
            /\ cleanIt' = Nil
            /\ prev' = Nil
            /\ UNCHANGED <<stackTraces, cleanErr, deletes>>
       ELSE \E r \in DeleteOutcomes(DOMAIN stackTraces, prev[1]) :
              /\ deletes' = Logged("stack", prev[1], Nil, r)
              /\ IF r = "error" /\ ReturnsOnDeleteError
                 THEN /\ cleanErr' = "stack"
                      /\ pc' = "report"
                      /\ UNCHANGED <<stackTraces, cleanIt, prev>>
                 ELSE /\ stackTraces' =
                           IF r = "ok" THEN Remove(stackTraces, prev[1]) ELSE stackTraces
                      /\ pc' = "clean_counts"
                      /\ cleanIt' = Nil
                      /\ prev' = Nil
                      /\ UNCHANGED cleanErr
    /\ events' = IF pc' = "report" THEN Append(events, "clear_return") ELSE events
    /\ UNCHANGED <<counts, runVars, loopVars, samplerOps, procfs, httpVars, target, labels, cycleHist, lost, cleanStart,
                   seen>>

\* One turn of "for it.Next()" over counts.
CleanCountsNext ==
    /\ pc = "clean_counts"
    /\ LET n == NextKey(DOMAIN counts, cleanIt, KeyRank)
       IN  /\ n # Nil
           /\ cleanIt' = n
           /\ seen' = Append(seen, <<"count", n[1]>>)
           /\ IF prev = Nil
              THEN /\ prev' = n
                   /\ UNCHANGED <<counts, cleanErr, pc, deletes, lost>>
              ELSE LET k == DeleteTarget(prev, n)[1]
                   IN  \E r \in DeleteOutcomes(DOMAIN counts, k) :
                         /\ deletes' = Logged("count", k, n, r)
                         /\ IF r = "ok"
                            THEN /\ counts' = Remove(counts, k)
                                 /\ lost' = lost + Unread(k)
                                 /\ prev' = n
                                 /\ UNCHANGED <<cleanErr, pc>>
                            ELSE IF ReturnsOnDeleteError
                            THEN /\ cleanErr' = "count"
                                 /\ pc' = "report"
                                 /\ UNCHANGED <<counts, prev, lost>>
                            ELSE /\ prev' = n
                                 /\ UNCHANGED <<counts, cleanErr, pc, lost>>
    /\ events' = IF pc' = "report" THEN Append(events, "clear_return") ELSE events
    /\ UNCHANGED <<stackTraces, runVars, loopVars, samplerOps, procfs, httpVars, target, labels, cycleHist, cleanStart>>

\* it.Next() returns false on counts: the last key is deleted and clean
\* returns nil.
CleanCountsEnd ==
    /\ pc = "clean_counts"
    /\ NextKey(DOMAIN counts, cleanIt, KeyRank) = Nil
    /\ pc' = "report"
    /\ IF ~FinalDelete(prev)
       THEN UNCHANGED <<counts, cleanErr, deletes, lost>>
       ELSE \E r \in DeleteOutcomes(DOMAIN counts, prev[1]) :
              /\ deletes' = Logged("count", prev[1], Nil, r)
              /\ IF r = "ok"
                 THEN /\ counts' = Remove(counts, prev[1])
                      /\ lost' = lost + Unread(prev[1])
                      /\ UNCHANGED cleanErr
                 ELSE /\ cleanErr' = IF ReturnsOnDeleteError THEN "count" ELSE cleanErr
                      /\ UNCHANGED <<counts, lost>>
    /\ events' = Append(events, "clear_return")
    /\ UNCHANGED <<stackTraces, cleanIt, prev, runVars, loopVars, samplerOps, procfs, httpVars, target, labels,
                   cycleHist, cleanStart, seen>>

clean ==
    \/ CleanStackTracesNext
    \/ CleanStackTracesEnd
    \/ CleanCountsNext
    \/ CleanCountsEnd

\* ---------------------------------------------- clean on its own, any maps
\* A profiler in its loop, about to call clean: any content of the two maps,
\* and no sampler event while clean runs.
AnyCounts == UNION {[S -> {1}] : S \in SUBSET CountKeys}

AnyStackTraces == UNION {[S -> SampledStacks] : S \in SUBSET Sids}

InitClean ==
    /\ counts \in AnyCounts
    /\ stackTraces \in AnyStackTraces
    /\ cleanIt = Nil /\ prev = Nil /\ cleanErr = "none"
    /\ pc = "clean_stacks"
    /\ cancel = TRUE /\ ctxDone = FALSE /\ stopped = FALSE /\ registered = TRUE
    /\ cpu = NumCPU
    /\ module = "loaded" /\ cgroup = "open"
    /\ perfFds = [c \in 0..(NumCPU - 1) |-> "attached"]
    /\ tickPending = FALSE /\ ticks = 1
    /\ runErr = "none" /\ lastError = "none" /\ lastProfileTakenAt = 0
    /\ failedBefore = FALSE
    /\ cycle = 1 /\ it = Nil /\ samples = EmptyMap
    /\ missingStacks = [user |-> 0, kernel |-> 0]
    /\ loopErr = "none" /\ inFlight = FALSE /\ sendErr = FALSE
    /\ locations = <<>> /\ kernelLocations = <<>> /\ kernelAddresses = {}
    /\ locationIndices = EmptyMap /\ userFunctions = EmptyMap
    /\ kernelFunctions = EmptyMap /\ sampleLocation = EmptyMap
    /\ mappingSeen = {} /\ prof = NoProfile
    /\ procfs = SettledProcs
    /\ target = ScopeTarget /\ labels = NoLabels
    /\ HandlerIdle
    /\ samplerOps = MaxSamplerOps
    /\ drained = EmptyMap /\ dropped = [user |-> 0, kernel |-> 0]
    /\ lost = 0
    /\ cleanStart = [st |-> DOMAIN stackTraces, cn |-> DOMAIN counts]
    /\ deletes = <<>> /\ seen = <<>>
    /\ events = <<"drain_begin", "drain_end", "upload_call", "upload_return",
                  "clear_call">>

SpecClean == InitClean /\ [][clean]_vars

\* ------------------------------------------------------- CgroupProfiler.Run
SetupErrors ==
    {"new bpf module", "load bpf object", "open cgroup", "open perf event",
     "get bpf program", "attach perf event", "get counts map", "get stack traces map"}

\* Run is between the creation of its ticker and its return.
LoopPcs == {"select", "drain", "send", "sending", "clean_stacks", "clean_counts", "report"}

cycleVars == <<cycle, it, samples, missingStacks, loopErr, inFlight, sendErr,
               buildVars, drained, dropped, events>>

\* What the deferred calls of Run do when it returns: cgroup.Close() and
\* m.Close(), each registered once its resource was obtained.  Nothing in Run
\* closes the perf-event fds; the module's Close may destroy the links of the
\* attached ones.
ClosedByDefers(fds, destroysLinks) ==
    [c \in DOMAIN fds |->
        IF destroysLinks /\ fds[c] = "attached" THEN "closed" ELSE fds[c]]

\* (the slip of a missing return: the error is kept and Run goes on to its loop)
ReturnMissing(err) ==
    /\ pc' = "select"
    /\ runErr' = err
    /\ UNCHANGED <<cgroup, module, perfFds>>

Return(err) ==
    /\ pc' = "done"
    /\ runErr' = err
    /\ cgroup' = IF cgroup = "open" THEN "closed" ELSE cgroup
    /\ module' = IF module \in {"open", "loaded"} THEN "closed" ELSE module
    /\ \E destroysLinks \in BOOLEAN :
         perfFds' = IF module \in {"open", "loaded"}
                    THEN ClosedByDefers(perfFds, destroysLinks)
                    ELSE perfFds

\* Run is called: under the mutex, it derives its context and stores cancel.
RunInstallCancel ==
    /\ pc = "created"
    /\ cancel' = TRUE
    /\ pc' = "new_module"
    /\ UNCHANGED <<mapVars, cleanVars, ctxDone, stopped, registered, cpu, module, cgroup,
                   perfFds, tickPending, ticks, runErr, lastError,
                   lastProfileTakenAt, failedBefore, cycleVars, samplerOps, procfs, httpVars, target, labels, lost, cleanHist>>

\* bpf.NewModuleFromBufferArgs
NewModule ==
    /\ pc = "new_module"
    /\ \E ok \in BOOLEAN :
         IF ok
         THEN /\ module' = "open"
              /\ pc' = "load"
              /\ UNCHANGED <<runErr, cgroup, perfFds>>
         ELSE Return("new bpf module")
    /\ UNCHANGED <<mapVars, cleanVars, cancel, ctxDone, stopped, registered, cpu,
                   tickPending, ticks, lastError,
                   lastProfileTakenAt, failedBefore, cycleVars, samplerOps, procfs, httpVars, target, labels, lost, cleanHist>>

\* m.BPFLoadObject
LoadObject ==
    /\ pc = "load"
    /\ \E ok \in BOOLEAN :
         IF ok
         THEN /\ module' = "loaded"
              /\ pc' = "open_cgroup"
              /\ UNCHANGED <<runErr, cgroup, perfFds>>
         ELSE Return("load bpf object")
    /\ UNCHANGED <<mapVars, cleanVars, cancel, ctxDone, stopped, registered, cpu,
                   tickPending, ticks, lastError,
                   lastProfileTakenAt, failedBefore, cycleVars, samplerOps, procfs, httpVars, target, labels, lost, cleanHist>>

\* os.Open of the cgroup directory
OpenCgroup ==
    /\ pc = "open_cgroup"
    /\ \E ok \in BOOLEAN :
         IF ok
         THEN /\ cgroup' = "open"
              /\ pc' = "perf_open"
              /\ cpu' = 0
              /\ UNCHANGED <<runErr, module, perfFds>>
         ELSE Return("open cgroup") /\ UNCHANGED cpu
    /\ UNCHANGED <<mapVars, cleanVars, cancel, ctxDone, stopped, registered,
                   tickPending, ticks, lastError,
                   lastProfileTakenAt, failedBefore, cycleVars, samplerOps, procfs, httpVars, target, labels, lost, cleanHist>>

\* unix.PerfEventOpen for CPU i
PerfEventOpen ==
    /\ pc = "perf_open"
    /\ \E ok \in BOOLEAN :
         IF ok
         THEN /\ perfFds' = Put(perfFds, cpu, "open")
              /\ pc' = "get_program"
              /\ UNCHANGED <<runErr, module, cgroup>>
         ELSE Return("open perf event")
    /\ UNCHANGED <<mapVars, cleanVars, cancel, ctxDone, stopped, registered, cpu,
                   tickPending, ticks, lastError,
                   lastProfileTakenAt, failedBefore, cycleVars, samplerOps, procfs, httpVars, target, labels, lost, cleanHist>>

\* m.GetProgram("do_sample")
GetProgram ==
    /\ pc = "get_program"
    /\ \E ok \in BOOLEAN :
         IF ok
         THEN /\ pc' = "attach"
              /\ UNCHANGED <<runErr, module, cgroup, perfFds>>
         ELSE Return("get bpf program")
    /\ UNCHANGED <<mapVars, cleanVars, cancel, ctxDone, stopped, registered, cpu,
                   tickPending, ticks, lastError,
                   lastProfileTakenAt, failedBefore, cycleVars, samplerOps, procfs, httpVars, target, labels, lost, cleanHist>>

\* prog.AttachPerfEvent(fd), and the loop's i++ and test
AttachPerfEvent ==
    /\ pc = "attach"
    /\ \E ok \in BOOLEAN :
         IF ok
         THEN /\ perfFds' = Put(perfFds, cpu, "attached")
              /\ cpu' = cpu + 1
              /\ pc' = IF cpu + 1 < NumCPU THEN "perf_open" ELSE "get_counts"
              /\ UNCHANGED <<runErr, module, cgroup>>
         ELSE Return("attach perf event") /\ UNCHANGED cpu
    /\ UNCHANGED <<mapVars, cleanVars, cancel, ctxDone, stopped, registered,
                   tickPending, ticks, lastError,
                   lastProfileTakenAt, failedBefore, cycleVars, samplerOps, procfs, httpVars, target, labels, lost, cleanHist>>

\* m.GetMap("counts")
GetCountsMap ==
    /\ pc = "get_counts"
    /\ \E ok \in BOOLEAN :
         IF ok
         THEN /\ pc' = "get_stacks"
              /\ UNCHANGED <<runErr, module, cgroup, perfFds>>
         ELSE Return("get counts map")
    /\ UNCHANGED <<mapVars, cleanVars, cancel, ctxDone, stopped, registered, cpu,
                   tickPending, ticks, lastError,
                   lastProfileTakenAt, failedBefore, cycleVars, samplerOps, procfs, httpVars, target, labels, lost, cleanHist>>

\* m.GetMap("stack_traces"), p.bpfMaps and the ticker
GetStackTracesMap ==
    /\ pc = "get_stacks"
    /\ \E ok \in BOOLEAN :
         IF ok
         THEN /\ pc' = "select"
              /\ UNCHANGED <<runErr, module, cgroup, perfFds>>
         ELSE Return("get stack traces map")
    /\ UNCHANGED <<mapVars, cleanVars, cancel, ctxDone, stopped, registered, cpu,
                   tickPending, ticks, lastError,
                   lastProfileTakenAt, failedBefore, cycleVars, samplerOps, procfs, httpVars, target, labels, lost, cleanHist>>

\* The ticker delivers a tick into ticker.C (one slot; a tick that finds it
\* full is dropped).
Tick ==
    /\ pc \in LoopPcs
    /\ ~tickPending
    /\ ticks < MaxTicks
    /\ tickPending' = TRUE
    /\ ticks' = ticks + 1
    /\ UNCHANGED <<mapVars, cleanVars, pc, cancel, ctxDone, stopped, registered, cpu,
                   module, cgroup, perfFds, runErr, lastError,
                   lastProfileTakenAt, failedBefore, cycleVars, samplerOps, procfs, httpVars, target, labels, lost, cleanHist>>

\* The cases of the select that are ready: the statement takes any one of them.
SelectCases == {c \in {"done", "tick"} : (c = "done" /\ ctxDone) \/ (c = "tick" /\ tickPending)}

\* case <-ctx.Done(): return ctx.Err()
SelectDone ==
    /\ pc = "select"
    /\ "done" \in SelectCases
    /\ Return("canceled")
    /\ UNCHANGED <<mapVars, cleanVars, cancel, ctxDone, stopped, registered, cpu,
                   tickPending, ticks, lastError,
                   lastProfileTakenAt, failedBefore, cycleVars, samplerOps, procfs, httpVars, target, labels, lost, cleanHist>>

\* case <-ticker.C: profileLoop is called with the capture time; it sets up
\* its maps and the counts iterator.
SelectTick ==
    /\ pc = "select"
    /\ "tick" \in SelectCases
    /\ tickPending' = FALSE
    /\ pc' = "drain"
    /\ cycle' = cycle + 1
    /\ events' = <<"drain_begin">>
    /\ UNCHANGED <<mapVars, cleanVars, cancel, ctxDone, stopped, registered, cpu, module,
                   cgroup, perfFds, ticks, runErr, lastError,
                   lastProfileTakenAt, failedBefore, it, samples, loopErr, sendErr, missingStacks,
                   inFlight, buildVars, samplerOps, procfs, httpVars, target, labels, cycleHist, lost, cleanHist>>

\* profileLoop has returned (its locals and those of clean are gone):
\* loopReport(captureTime, err), back to the select
LoopReport ==
    /\ pc = "report"
    /\ lastProfileTakenAt' = cycle
    /\ failedBefore' = (failedBefore \/ sendErr \/ cleanErr # "none")
    /\ lastError' = loopErr
    /\ pc' = "select"
    /\ it' = Nil /\ samples' = EmptyMap /\ loopErr' = "none" /\ sendErr' = FALSE
    /\ locations' = <<>> /\ kernelLocations' = <<>> /\ kernelAddresses' = {}
    /\ locationIndices' = EmptyMap /\ userFunctions' = EmptyMap
    /\ kernelFunctions' = EmptyMap /\ sampleLocation' = EmptyMap
    /\ mappingSeen' = {} /\ prof' = NoProfile
    /\ cleanIt' = Nil /\ prev' = Nil /\ cleanErr' = "none"
    /\ drained' = EmptyMap /\ dropped' = [user |-> 0, kernel |-> 0]
    /\ cleanStart' = [st |-> {}, cn |-> {}] /\ deletes' = <<>> /\ seen' = <<>>
    /\ events' = <<>> /\ lost' = 0
    /\ UNCHANGED <<mapVars, cancel, ctxDone, stopped, registered, cpu, module,
                   cgroup, perfFds, tickPending, ticks, runErr,
                   cycle, missingStacks, inFlight, samplerOps, procfs, httpVars, target, labels>>

\* ------------------------------------------------------ CgroupProfiler.Stop
\* Under the mutex: the metric is unregistered and cancel, if Run has stored
\* it, is called.
Stop ==
    /\ ~stopped
    /\ stopped' = TRUE
    /\ registered' = FALSE
    /\ ctxDone' = IF cancel THEN TRUE ELSE ctxDone
    /\ UNCHANGED <<mapVars, cleanVars, pc, cancel, cpu, module, cgroup, perfFds,
                   tickPending, ticks, runErr, lastError,
                   lastProfileTakenAt, failedBefore, cycleVars, samplerOps, procfs, httpVars, target, labels, lost, cleanHist>>

\* ------------------------------------------------ CgroupProfiler.profileLoop
\* The 2 x stackDepth slots of a tuple: the user stack, then the kernel stack.
CombinedStack(u, k) ==
    [i \in 1..doubleStackDepth |-> IF i <= stackDepth THEN u[i] ELSE k[i - stackDepth]]

\* (the slip of dropping the count of a tuple whose stack has a sample)
AggregateKeepsFirst(smp, stack, value) ==
    IF stack \in DOMAIN smp THEN smp ELSE Put(smp, stack, value)

\* (the slip of leaving out a sample whose stack has no frame)
AggregateSkipsEmpty(smp, stack, value) ==
    IF \A i \in DOMAIN stack : stack[i] = 0 THEN smp
    ELSE IF stack \in DOMAIN smp
    THEN [smp EXCEPT ![stack] = @ + value]
    ELSE Put(smp, stack, value)

\* (the slip of storing a count over the sample that is there)
AggregateOverwrites(smp, stack, value) == Put(smp, stack, value)

\* samples[stack]: a sample that is there has the count added to its value, a
\* new one starts with it.
Aggregate(smp, stack, value) ==
    IF stack \in DOMAIN smp
    THEN [smp EXCEPT ![stack] = @ + value]
    ELSE Put(smp, stack, value)

\* The errors that end profileLoop while it handles the tuple of key k.
TupleErrors(k) ==
    {"read pid bytes", "read user stack ID bytes", "read kernel stack ID bytes",
     "get count value"}
    \cup (IF k[2] \in DOMAIN stackTraces THEN {"read user stack trace"} ELSE {})
    \cup (IF k[2] \in DOMAIN stackTraces /\ k[3] >= 0 /\ k[3] \in DOMAIN stackTraces
          THEN {"read kernel stack trace"} ELSE {})

\* (the slip of looking the kernel stack up whatever the sign of kernel_sid)
MissingStackAlwaysLooksUp(k) ==
    IF k[2] \notin DOMAIN stackTraces THEN "user"
    ELSE IF k[3] \notin DOMAIN stackTraces THEN "kernel"
    ELSE "none"

\* (the slip of counting a missing kernel stack under the label of the user stacks)
MissingStackMislabelled(k) ==
    IF k[2] \notin DOMAIN stackTraces \/ (k[3] >= 0 /\ k[3] \notin DOMAIN stackTraces)
    THEN "user"
    ELSE "none"

\* The stack of the tuple of key k that stack_traces does not have: the user
\* stack is looked up first, the kernel stack only when kernel_sid >= 0.
MissingStack(k) ==
    IF k[2] \notin DOMAIN stackTraces THEN "user"
    ELSE IF k[3] >= 0 /\ k[3] \notin DOMAIN stackTraces THEN "kernel"
    ELSE "none"

\* One turn of "for it.Next()" over counts: the key is decoded, its count and
\* its stacks are read, and the tuple is dropped (a stack is missing) or
\* added to the samples.
DrainNext ==
    /\ pc = "drain"
    /\ LET n == NextKey(DOMAIN counts, it, KeyRank)
       IN  /\ n # Nil
           /\ it' = n
           /\ LET k     == n[1]
                  value == counts[k]
              IN  /\ drained' = Put(drained, k, value)
                  /\ IF MissingStack(k) = "user"
                     THEN /\ missingStacks' = [missingStacks EXCEPT !.user = @ + 1]
                          /\ dropped' = [dropped EXCEPT !.user = @ + value]
                          /\ UNCHANGED <<samples, locations, kernelLocations,
                                         kernelAddresses, locationIndices, userFunctions,
                                         mappingSeen, sampleLocation>>
                     ELSE IF MissingStack(k) = "kernel"
                     THEN /\ missingStacks' = [missingStacks EXCEPT !.kernel = @ + 1]
                          /\ dropped' = [dropped EXCEPT !.kernel = @ + value]
                          /\ UNCHANGED <<samples, locations, kernelLocations,
                                         kernelAddresses, locationIndices, userFunctions,
                                         mappingSeen, sampleLocation>>
                     ELSE LET stack == CombinedStack(stackTraces[k[2]],
                                           IF k[3] >= 0 THEN stackTraces[k[3]] ELSE ZeroStack)
                              b     == SampleLocations(k[1], stack)
                          IN  /\ samples' = Aggregate(samples, stack, value)
                              /\ IF stack \in DOMAIN samples
                                 THEN UNCHANGED <<locations, kernelLocations, kernelAddresses,
                                                  locationIndices, userFunctions, mappingSeen,
                                                  sampleLocation>>
                                 ELSE /\ locations' = b.locations
                                      /\ kernelLocations' = b.kernelLocations
                                      /\ kernelAddresses' = b.kernelAddresses
                                      /\ locationIndices' = b.locationIndices
                                      /\ userFunctions' = b.userFunctions
                                      /\ mappingSeen' = b.mappingSeen
                                      /\ sampleLocation' = Put(sampleLocation, stack,
                                                               b.sampleLocations)
                              /\ UNCHANGED <<missingStacks, dropped>>
    /\ UNCHANGED <<mapVars, cleanVars, pc, runVars, cycle, loopErr, inFlight, sendErr,
                   kernelFunctions, prof, samplerOps, procfs, httpVars, target, labels, lost, cleanHist, events>>

\* (the slip of a continue where the error is to be returned)
DrainTupleErrorSkips ==
    /\ pc = "drain"
    /\ LET n == NextKey(DOMAIN counts, it, KeyRank)
       IN  /\ n # Nil
           /\ it' = n
           /\ \E e \in TupleErrors(n[1]) : loopErr' = e
    /\ UNCHANGED <<mapVars, cleanVars, pc, runVars, cycle, samples, missingStacks, inFlight,
                   sendErr, buildVars, samplerOps, procfs, httpVars, target, labels, cycleHist, lost, cleanHist, events>>

\* A turn of the loop that ends profileLoop with an error.
DrainTupleError ==
    /\ pc = "drain"
    /\ LET n == NextKey(DOMAIN counts, it, KeyRank)
       IN  /\ n # Nil
           /\ it' = n
           /\ \E e \in TupleErrors(n[1]) : loopErr' = e
    /\ pc' = "report"
    /\ events' = Append(events, "abort")
    /\ UNCHANGED <<mapVars, cleanVars, runVars, cycle, samples, missingStacks, inFlight,
                   sendErr, buildVars, samplerOps, procfs, httpVars, target, labels, cycleHist, lost, cleanHist>>

\* it.Next() returns false: it.Err() is checked, the profile is put together
\* and the kernel symbols are resolved; either may end profileLoop.
DrainEnd ==
    /\ pc = "drain"
    /\ NextKey(DOMAIN counts, it, KeyRank) = Nil
    /\ \E r \in {"ok", "failed iterator", "resolve kernel symbols"} :
         IF r = "failed iterator"
         THEN /\ pc' = "report"
              /\ loopErr' = r
              /\ events' = Append(events, "abort")
              /\ UNCHANGED <<locations, userFunctions, kernelFunctions, prof>>
         ELSE \E order \in Perms(DOMAIN samples) :
                LET filled == [prof EXCEPT !.Sample = ProfSample(order),
                                           !.Mapping = AllMappings,
                                           !.Location = locations]
                IN  IF r = "resolve kernel symbols"
                    THEN /\ pc' = "report"
                         /\ loopErr' = r
                         /\ events' = Append(events, "abort")
                         /\ prof' = filled
                         /\ UNCHANGED <<locations, userFunctions, kernelFunctions>>
                    ELSE \E kernelSymbols \in [kernelAddresses -> {"", "sym"}] :
                           LET names == KernelFunctionNames(kernelSymbols)
                           IN  \E kOrder \in Perms(DOMAIN names),
                                  uOrder \in Perms(DOMAIN userFunctions) :
                                 LET fns == ProfFunction(names, kOrder, uOrder)
                                 IN  /\ pc' = "send"
                                     /\ events' = Append(events, "drain_end")
                                     /\ locations' = WithKernelLines
                                     /\ kernelFunctions' =
                                          [a \in DOMAIN names |->
                                             [Name |-> names[a],
                                              ID |-> FunctionIDOf(fns, <<0, a>>)]]
                                     /\ userFunctions' =
                                          [u \in DOMAIN userFunctions |->
                                             [userFunctions[u] EXCEPT !.ID =
                                                FunctionIDOf(fns, u)]]
                                     /\ prof' = [filled EXCEPT
                                                   !.Location = WithKernelLines,
                                                   !.Mapping = AppendKernelMapping(@),
                                                   !.Function = fns]
                                     /\ UNCHANGED loopErr
    /\ UNCHANGED <<mapVars, cleanVars, runVars, cycle, it, samples, missingStacks,
                   inFlight, sendErr, kernelLocations, kernelAddresses, locationIndices,
                   sampleLocation, mappingSeen, samplerOps, procfs, httpVars, target, labels, cycleHist, lost, cleanHist>>

\* p.bpfMaps.clean() is called.
EnterClean ==
    /\ pc' = "clean_stacks"
    /\ cleanIt' = Nil
    /\ prev' = Nil
    /\ cleanErr' = "none"
    /\ cleanStart' = [st |-> DOMAIN stackTraces, cn |-> DOMAIN counts]
    /\ deletes' = <<>>
    /\ seen' = <<>>

\* (the slip of returning the error of sendProfile)
SendErrorReturned == TRUE

\* Whether an error of sendProfile ends profileLoop: it is logged only.
SendErrorEndsLoop == FALSE

\* (the slip of not waiting for the request: the cycle goes on while it is out)
SendProfileDetached ==
    /\ pc = "send"
    /\ inFlight' = TRUE
    /\ events' = Append(events, "upload_call")
    /\ EnterClean
    /\ labels' = Labels
    /\ UNCHANGED <<mapVars, runVars, cycle, it, samples, missingStacks, loopErr,
                   sendErr, buildVars, samplerOps, procfs, httpVars, target, cycleHist, lost>>

\* sendProfile: the profile is serialized and the WriteRaw request goes out
\* with the labels of p.Labels(); profileLoop waits for the answer.
SendProfileCall ==
    /\ pc = "send"
    /\ inFlight' = TRUE
    /\ labels' = Labels
    /\ pc' = "sending"
    /\ events' = Append(events, "upload_call")
    /\ UNCHANGED <<mapVars, cleanVars, runVars, cycle, it, samples, missingStacks,
                   loopErr, sendErr, buildVars, samplerOps, procfs, httpVars, target, cycleHist,
                   lost, cleanHist>>

\* WriteRaw returns, with or without an error; clean is called next.
SendProfileReturn ==
    /\ pc = "sending"
    /\ inFlight' = FALSE
    /\ labels' = NoLabels
    /\ \E ok \in BOOLEAN :
         /\ sendErr' = ~ok
         /\ IF ~ok /\ SendErrorEndsLoop
            THEN /\ pc' = "report"
                 /\ loopErr' = "send profile"
                 /\ events' = events \o <<"upload_return", "abort">>
                 /\ UNCHANGED <<cleanVars, cleanHist>>
            ELSE /\ EnterClean
                 /\ events' = events \o <<"upload_return", "clear_call">>
                 /\ UNCHANGED loopErr
    /\ UNCHANGED <<mapVars, runVars, cycle, it, samples, missingStacks, buildVars,
                   samplerOps, procfs, httpVars, target,
                   cycleHist, lost>>

profileLoop ==
    \/ DrainNext
    \/ DrainTupleError
    \/ DrainEnd
    \/ SendProfileCall
    \/ SendProfileReturn
    \/ clean

\* ----------------------------------------------------- the in-kernel sampler
\* The program runs while one of its perf events is attached.
SamplerRuns == module = "loaded" /\ \E c \in DOMAIN perfFds : perfFds[c] = "attached"

\* One sample: the stacks are stored under their ids (an id that is there
\* keeps its stack) and the count of <<pid, user_sid, kernel_sid>> goes up by 1.
SamplerHit ==
    /\ SamplerRuns
    /\ samplerOps < MaxSamplerOps
    /\ samplerOps' = samplerOps + 1
    /\ \E pid \in SampledPids, us \in UserSids, ks \in KernelSids,
          ustack \in SampledStacks, kstack \in SampledStacks :
         LET st1 == IF us >= 0 /\ us \notin DOMAIN stackTraces
                    THEN Put(stackTraces, us, ustack) ELSE stackTraces
             st2 == IF ks >= 0 /\ ks \notin DOMAIN st1
                    THEN Put(st1, ks, kstack) ELSE st1
             k   == <<pid, us, ks>>
         IN  /\ stackTraces' = st2
             /\ counts' = Put(counts, k, (IF k \in DOMAIN counts THEN counts[k] ELSE 0) + 1)
    /\ UNCHANGED <<cleanVars, pc, runVars, loopVars, procfs, httpVars, target, labels, cycleHist, lost, cleanHist, events>>

\* ------------------------------------------------------------ the profiler
\* NewCgroupProfiler has returned; Run and Stop have not been called.
Init ==
    /\ counts = EmptyMap
    /\ stackTraces = EmptyMap
    /\ cleanIt = Nil /\ prev = Nil /\ cleanErr = "none"
    /\ pc = "created"
    /\ cancel = FALSE /\ ctxDone = FALSE /\ stopped = FALSE /\ registered = TRUE
    /\ cpu = 0
    /\ module = "none" /\ cgroup = "none"
    /\ perfFds = EmptyMap
    /\ tickPending = FALSE /\ ticks = 0
    /\ runErr = "none" /\ lastError = "none" /\ lastProfileTakenAt = 0
    /\ failedBefore = FALSE
    /\ cycle = 0 /\ it = Nil /\ samples = EmptyMap
    /\ missingStacks = [user |-> 0, kernel |-> 0]
    /\ loopErr = "none" /\ inFlight = FALSE /\ sendErr = FALSE
    /\ locations = <<>> /\ kernelLocations = <<>> /\ kernelAddresses = {}
    /\ locationIndices = EmptyMap /\ userFunctions = EmptyMap
    /\ kernelFunctions = EmptyMap /\ sampleLocation = EmptyMap
    /\ mappingSeen = {} /\ prof = NoProfile
    /\ procfs = SettledProcs
    /\ target = ScopeTarget /\ labels = NoLabels
    /\ HandlerIdle
    /\ samplerOps = 0
    /\ drained = EmptyMap /\ dropped = [user |-> 0, kernel |-> 0]
    /\ lost = 0
    /\ cleanStart = [st |-> {}, cn |-> {}]
    /\ deletes = <<>> /\ seen = <<>>
    /\ events = <<>>

Run ==
    \/ RunInstallCancel
    \/ NewModule
    \/ LoadObject
    \/ OpenCgroup
    \/ PerfEventOpen
    \/ GetProgram
    \/ AttachPerfEvent
    \/ GetCountsMap
    \/ GetStackTracesMap
    \/ SelectDone
    \/ SelectTick
    \/ LoopReport

Next ==
    \/ Run
    \/ profileLoop
    \/ Stop
    \/ Tick
    \/ SamplerHit

Spec == Init /\ [][Next]_vars

\* ------------------------------------- one cycle on its own, any maps
\* profileLoop has just been called; the maps hold any tuples and any stacks
\* (a stack a key names may be gone: the sampler evicts stacks), and no
\* sampler event falls into the drain.
CycleCounts ==
    UNION {[S -> CountValues] : S \in {T \in SUBSET CountKeys : Cardinality(T) <= MaxTuples}}

InitCycle ==
    /\ counts \in CycleCounts
    /\ stackTraces \in AnyStackTraces
    /\ cleanIt = Nil /\ prev = Nil /\ cleanErr = "none"
    /\ pc = "drain"
    /\ cancel = TRUE /\ ctxDone = FALSE /\ stopped = FALSE /\ registered = TRUE
    /\ cpu = NumCPU
    /\ module = "loaded" /\ cgroup = "open"
    /\ perfFds = [c \in 0..(NumCPU - 1) |-> "attached"]
    /\ tickPending = FALSE /\ ticks = 1
    /\ runErr = "none" /\ lastError = "none" /\ lastProfileTakenAt = 0
    /\ failedBefore = FALSE
    /\ cycle = 1 /\ it = Nil /\ samples = EmptyMap
    /\ missingStacks = [user |-> 0, kernel |-> 0]
    /\ loopErr = "none" /\ inFlight = FALSE /\ sendErr = FALSE
    /\ locations = <<>> /\ kernelLocations = <<>> /\ kernelAddresses = {}
    /\ locationIndices = EmptyMap /\ userFunctions = EmptyMap
    /\ kernelFunctions = EmptyMap /\ sampleLocation = EmptyMap
    /\ mappingSeen = {} /\ prof = NoProfile
    /\ procfs = SettledProcs
    /\ target = ScopeTarget /\ labels = NoLabels
    /\ HandlerIdle
    /\ samplerOps = MaxSamplerOps
    /\ drained = EmptyMap /\ dropped = [user |-> 0, kernel |-> 0]
    /\ lost = 0
    /\ cleanStart = [st |-> {}, cn |-> {}]
    /\ deletes = <<>> /\ seen = <<>>
    /\ events = <<"drain_begin">>

drain ==
    \/ DrainNext
    \/ DrainTupleError
    \/ DrainEnd

SpecCycle == InitCycle /\ [][drain]_vars

\* ------------------------------------- sendProfile, any labels of the scope
\* sendProfile is called with the profile of a cycle without tuples, for a
\* profiler of any scope.
InitLabels ==
    /\ counts = EmptyMap
    /\ stackTraces = EmptyMap
    /\ cleanIt = Nil /\ prev = Nil /\ cleanErr = "none"
    /\ pc = "send"
    /\ cancel = TRUE /\ ctxDone = FALSE /\ stopped = FALSE /\ registered = TRUE
    /\ cpu = NumCPU
    /\ module = "loaded" /\ cgroup = "open"
    /\ perfFds = [c \in 0..(NumCPU - 1) |-> "attached"]
    /\ tickPending = FALSE /\ ticks = 1
    /\ runErr = "none" /\ lastError = "none" /\ lastProfileTakenAt = 0
    /\ failedBefore = FALSE
    /\ cycle = 1 /\ it = Nil /\ samples = EmptyMap
    /\ missingStacks = [user |-> 0, kernel |-> 0]
    /\ loopErr = "none" /\ inFlight = FALSE /\ sendErr = FALSE
    /\ locations = <<>> /\ kernelLocations = <<>> /\ kernelAddresses = {}
    /\ locationIndices = EmptyMap /\ userFunctions = EmptyMap
    /\ kernelFunctions = EmptyMap /\ sampleLocation = EmptyMap
    /\ mappingSeen = {}
    /\ prof = [NoProfile EXCEPT !.Mapping = AppendKernelMapping(<<>>)]
    /\ procfs = SettledProcs
    /\ target \in Targets /\ labels = NoLabels
    /\ HandlerIdle
    /\ samplerOps = MaxSamplerOps
    /\ drained = EmptyMap /\ dropped = [user |-> 0, kernel |-> 0]
    /\ lost = 0
    /\ cleanStart = [st |-> {}, cn |-> {}]
    /\ deletes = <<>> /\ seen = <<>>
    /\ events = <<"drain_begin", "drain_end">>

send ==
    \/ SendProfileCall
    \/ SendProfileReturn

SpecLabels == InitLabels /\ [][send]_vars

\* --------------------------------------------- one /active-profilers request
\* A request has arrived at the handler of a profiler as constructed.
InitHandler ==
    /\ counts = EmptyMap
    /\ stackTraces = EmptyMap
    /\ cleanIt = Nil /\ prev = Nil /\ cleanErr = "none"
    /\ pc = "created"
    /\ cancel = FALSE /\ ctxDone = FALSE /\ stopped = FALSE /\ registered = TRUE
    /\ cpu = 0
    /\ module = "none" /\ cgroup = "none"
    /\ perfFds = EmptyMap
    /\ tickPending = FALSE /\ ticks = 0
    /\ runErr = "none" /\ lastError = "none" /\ lastProfileTakenAt = 0
    /\ failedBefore = FALSE
    /\ cycle = 0 /\ it = Nil /\ samples = EmptyMap
    /\ missingStacks = [user |-> 0, kernel |-> 0]
    /\ loopErr = "none" /\ inFlight = FALSE /\ sendErr = FALSE
    /\ locations = <<>> /\ kernelLocations = <<>> /\ kernelAddresses = {}
    /\ locationIndices = EmptyMap /\ userFunctions = EmptyMap
    /\ kernelFunctions = EmptyMap /\ sampleLocation = EmptyMap
    /\ mappingSeen = {} /\ prof = NoProfile
    /\ procfs = SettledProcs
    /\ target = ScopeTarget /\ labels = NoLabels
    /\ request \in Requests
    /\ hpc = "start"
    /\ elapsed = 0
    /\ result = NoResult
    /\ responses = <<>>
    /\ samplerOps = 0
    /\ drained = EmptyMap /\ dropped = [user |-> 0, kernel |-> 0]
    /\ lost = 0
    /\ cleanStart = [st |-> {}, cn |-> {}]
    /\ deletes = <<>> /\ seen = <<>>
    /\ events = <<>>

handler ==
    \/ HandlerParse
    \/ SecondPasses
    \/ HandlerRespond

SpecHandler == InitHandler /\ [][handler]_vars

\* ------------------------- the profile of one cycle, any maps and processes
\* A stack as the stack_traces map may hold it: zero-padded, or ended by a
\* zero slot with the slots after it left as they were.
TerminateStack(frames) ==
    [i \in 1..stackDepth |->
        IF i <= Len(frames) THEN frames[i] ELSE IF i = Len(frames) + 1 THEN 0 ELSE 1]

StoredStacks == SampledStacks \cup {TerminateStack(f) : f \in FrameLists}

StoredStackTraces == UNION {[S -> StoredStacks] : S \in SUBSET Sids}

BuildCounts ==
    UNION {[S -> {1}] : S \in {T \in SUBSET CountKeys : Cardinality(T) <= MaxBuildTuples}}

\* The builder asks the caches about a process when a tuple of it has a user
\* stack with a frame.
Asked(pid) ==
    \E k \in DOMAIN counts :
        /\ k[1] = pid
        /\ k[2] \in DOMAIN stackTraces
        /\ \E i \in 1..stackDepth : stackTraces[k[2]][i] # 0

\* profileLoop has just been called; no tuple fails to decode and no sampler
\* event falls into the drain.  The processes the builder asks about are in
\* any state.
InitBuild ==
    /\ counts \in BuildCounts
    /\ stackTraces \in StoredStackTraces
    /\ procfs \in [Pids -> ProcStates]
    /\ \A pid \in Pids : ~Asked(pid) => procfs[pid] = SettledProcs[pid]
    /\ target = ScopeTarget /\ labels = NoLabels
    /\ HandlerIdle
    /\ cleanIt = Nil /\ prev = Nil /\ cleanErr = "none"
    /\ pc = "drain"
    /\ cancel = TRUE /\ ctxDone = FALSE /\ stopped = FALSE /\ registered = TRUE
    /\ cpu = NumCPU
    /\ module = "loaded" /\ cgroup = "open"
    /\ perfFds = [c \in 0..(NumCPU - 1) |-> "attached"]
    /\ tickPending = FALSE /\ ticks = 1
    /\ runErr = "none" /\ lastError = "none" /\ lastProfileTakenAt = 0
    /\ failedBefore = FALSE
    /\ cycle = 1 /\ it = Nil /\ samples = EmptyMap
    /\ missingStacks = [user |-> 0, kernel |-> 0]
    /\ loopErr = "none" /\ inFlight = FALSE /\ sendErr = FALSE
    /\ locations = <<>> /\ kernelLocations = <<>> /\ kernelAddresses = {}
    /\ locationIndices = EmptyMap /\ userFunctions = EmptyMap
    /\ kernelFunctions = EmptyMap /\ sampleLocation = EmptyMap
    /\ mappingSeen = {} /\ prof = NoProfile
    /\ samplerOps = MaxSamplerOps
    /\ drained = EmptyMap /\ dropped = [user |-> 0, kernel |-> 0]
    /\ lost = 0
    /\ cleanStart = [st |-> {}, cn |-> {}]
    /\ deletes = <<>> /\ seen = <<>>
    /\ events = <<"drain_begin">>

build ==
    \/ DrainNext
    \/ DrainEnd

SpecBuild == InitBuild /\ [][build]_vars

\* --------------------- the locations of one cycle, stacks of several frames
\* Stacks of no, one and two frames, the two frames different.
OrderedStacks == {ZeroStack, PadStack(<<1>>), PadStack(<<2, 1>>)}

OrderedStackTraces == UNION {[S -> OrderedStacks] : S \in SUBSET Sids}

\* profileLoop has just been called; no tuple fails to decode and no sampler
\* event falls into the drain.
InitOrder ==
    /\ counts \in BuildCounts
    /\ stackTraces \in OrderedStackTraces
    /\ cleanIt = Nil /\ prev = Nil /\ cleanErr = "none"
    /\ pc = "drain"
    /\ cancel = TRUE /\ ctxDone = FALSE /\ stopped = FALSE /\ registered = TRUE
    /\ cpu = NumCPU
    /\ module = "loaded" /\ cgroup = "open"
    /\ perfFds = [c \in 0..(NumCPU - 1) |-> "attached"]
    /\ tickPending = FALSE /\ ticks = 1
    /\ runErr = "none" /\ lastError = "none" /\ lastProfileTakenAt = 0
    /\ failedBefore = FALSE
    /\ cycle = 1 /\ it = Nil /\ samples = EmptyMap
    /\ missingStacks = [user |-> 0, kernel |-> 0]
    /\ loopErr = "none" /\ inFlight = FALSE /\ sendErr = FALSE
    /\ locations = <<>> /\ kernelLocations = <<>> /\ kernelAddresses = {}
    /\ locationIndices = EmptyMap /\ userFunctions = EmptyMap
    /\ kernelFunctions = EmptyMap /\ sampleLocation = EmptyMap
    /\ mappingSeen = {} /\ prof = NoProfile
    /\ procfs = SettledProcs
    /\ target = ScopeTarget /\ labels = NoLabels
    /\ HandlerIdle
    /\ samplerOps = MaxSamplerOps
    /\ drained = EmptyMap /\ dropped = [user |-> 0, kernel |-> 0]
    /\ lost = 0
    /\ cleanStart = [st |-> {}, cn |-> {}]
    /\ deletes = <<>> /\ seen = <<>>
    /\ events = <<"drain_begin">>

SpecOrder == InitOrder /\ [][build]_vars

\* ====================================================================
\* Properties
\* ====================================================================
\* C1: in a cycle, the values of the samples plus the counts carried by the
\* tuples dropped for a missing user stack and for a missing kernel stack
\* add up to the counts of the tuples drained; with nothing else writing, a
\* cycle that completes has drained every tuple of the counts map.
C1_DrainedCountsAccounted ==
    /\ Sum(samples) + dropped.user + dropped.kernel = Sum(drained)
    /\ pc = "send" => drained = counts

C1_Witness ==
    /\ pc = "send"
    /\ dropped.kernel > 0
    /\ dropped.user = 0
    /\ Cardinality(DOMAIN drained) = 3
    /\ Cardinality(DOMAIN samples) = 1

\* C2: no increment the sampler makes while a cycle runs is deleted by clean
\* without the drain of that cycle having read it.
C2_NoIncrementLost == lost = 0

\* C3: Stopped is terminal: once Stop has returned, Run is not in its loop
\* with a context that is not cancelled (where it would stay, running cycles).
C3_StoppedIsTerminal == (stopped /\ pc \in LoopPcs) => ctxDone

\* C4: once the cancellation signal is set no profileLoop call is started, a
\* pending tick or not.
C4_NoCycleAfterCancel == [][ctxDone => cycle' = cycle]_vars

\* C5: when Run has returned, the cgroup directory, every perf-event fd and
\* the sampler module are released.
C5_AllReleasedOnReturn ==
    pc = "done" =>
       /\ cgroup # "open"
       /\ module \notin {"open", "loaded"}
       /\ \A c \in DOMAIN perfFds : perfFds[c] = "closed"

\* The steps of a cycle that runs to its end.
CycleSteps ==
    <<"drain_begin", "drain_end", "upload_call", "upload_return", "clear_call",
      "clear_return">>

IsPrefix(e, c) == Len(e) <= Len(c) /\ \A i \in 1..Len(e) : e[i] = c[i]

\* C9: the steps of a cycle come in the order drain, upload, clear (or the
\* cycle ends in the drain); while the upload is out nothing else of the
\* scope runs: clean is called after it has returned, and the next drain
\* starts after that.
C9_CycleIsSequential ==
    /\ IsPrefix(events, CycleSteps) \/ events = <<"drain_begin", "abort">>
    /\ inFlight => pc = "sending"
    /\ pc = "drain" => events = <<"drain_begin">>
    /\ pc = "send" => events = SubSeq(CycleSteps, 1, 2)
    /\ pc = "sending" => events = SubSeq(CycleSteps, 1, 3) /\ inFlight
    /\ pc \in {"clean_stacks", "clean_counts"} => events = SubSeq(CycleSteps, 1, 5)
    /\ pc = "report" => events \in {CycleSteps, <<"drain_begin", "abort">>}
    /\ pc \notin {"drain", "send", "sending", "clean_stacks", "clean_counts", "report"}
          => events = <<>>

C9_Witness ==
    /\ cycle = 2
    /\ pc = "clean_counts"
    /\ lastProfileTakenAt = 1 /\ lastError = "none"

\* C10: a failed upload and a failed clean are not errors of the cycle:
\* profileLoop returns nil, after a failed upload clean has still been called,
\* and Run returns only for a failed setup or a cancelled context.
C10_FailuresDoNotStopLoop ==
    /\ (pc = "report" /\ sendErr) => (loopErr = "none" /\ events = CycleSteps)
    /\ (pc = "report" /\ cleanErr # "none") => loopErr = "none"
    /\ pc = "done" => runErr \in SetupErrors \cup {"canceled"}
    /\ runErr = "canceled" => ctxDone
    /\ failedBefore => runErr \in {"none", "canceled"}

C10_Witness ==
    /\ failedBefore
    /\ cycle = 2
    /\ pc = "drain"
    /\ lastError = "none"
    /\ ~ctxDone

\* The errors that end profileLoop before it has a profile.
AbortErrors ==
    {"read pid bytes", "read user stack ID bytes", "read kernel stack ID bytes",
     "get count value", "read user stack trace", "read kernel stack trace",
     "failed iterator", "resolve kernel symbols"}

\* C11: a cycle the builder aborts (a key or a stack that does not decode, a
\* count that cannot be read, an iterator error, a failed kernel-symbol
\* resolution) sends no profile and calls no clean, so it deletes nothing
\* from the two maps; its error is the one loopReport stores, it stays the
\* last error until the next loopReport, and Run goes back to its select.
C11_AbortedCycleReportsError ==
    /\ [](/\ loopErr # "none" => (pc = "report" /\ loopErr \in AbortErrors)
          /\ (pc = "report" /\ loopErr # "none") =>
                /\ events = <<"drain_begin", "abort">>
                /\ deletes = <<>>
                /\ cleanStart = [st |-> {}, cn |-> {}]
                /\ ~inFlight /\ ~sendErr
                /\ runErr = "none")
    /\ [][/\ (pc = "report" /\ pc' # "report") => (lastError' = loopErr /\ pc' = "select")
          /\ lastError' # lastError => pc = "report"
          /\ (\E k \in DOMAIN counts : k \notin DOMAIN counts') => pc = "clean_counts"
          /\ (\E s \in DOMAIN stackTraces : s \notin DOMAIN stackTraces')
                => pc = "clean_stacks"]_vars

C11_Witness ==
    /\ cycle = 2
    /\ pc = "drain"
    /\ lastError = "read kernel stack trace"
    /\ lastProfileTakenAt = 1
    /\ counts # EmptyMap
    /\ runErr = "none"

\* C12: the time of the last profile moves only when a cycle has ended
\* without an error, so after a failed cycle it is still the time of the
\* last cycle that succeeded.
C12_TakenAtOnlyOnSuccess ==
    [][lastProfileTakenAt' # lastProfileTakenAt => lastError' = "none"]_vars

\* C13: when a step of the setup fails (the module, the object, the cgroup
\* directory, a perf event, the program, the attachment, one of the two
\* maps), Run returns that error and no cycle has been or will be started:
\* no tick was taken and nothing was reported.
C13_SetupFailureIsFatal ==
    runErr \in SetupErrors =>
        /\ pc = "done"
        /\ cycle = 0 /\ ticks = 0 /\ ~tickPending
        /\ lastProfileTakenAt = 0 /\ lastError = "none"
        /\ events = <<>> /\ samples = EmptyMap /\ deletes = <<>>

C13_Witness ==
    /\ runErr = "get stack traces map"
    /\ pc = "done"
    /\ \A c \in 0..(NumCPU - 1) : c \in DOMAIN perfFds
    /\ samplerOps > 0

\* ------------------------------------------------ the samples of a cycle
\* The tuple of key k is not dropped: stack_traces has its stacks.
Kept(k) == k[2] \in DOMAIN stackTraces /\ (k[3] < 0 \/ k[3] \in DOMAIN stackTraces)

\* The 2 x stackDepth slots read for the tuple of key k.
StackOf(k) ==
    [i \in 1..doubleStackDepth |->
        IF i <= stackDepth THEN stackTraces[k[2]][i]
        ELSE IF k[3] >= 0 THEN stackTraces[k[3]][i - stackDepth] ELSE 0]

KeptDrained == {k \in DOMAIN drained : Kept(k)}

\* C14: the tuples drained so far that were not dropped give one sample per
\* distinct combined stack, whose value is the sum of the counts of the
\* tuples with that stack; the profile lists each of these samples once.
C14_OneSamplePerStack ==
    /\ DOMAIN samples = {StackOf(k) : k \in KeptDrained}
    /\ \A stack \in DOMAIN samples :
         samples[stack] = SumOver(drained, {k \in KeptDrained : StackOf(k) = stack})
    /\ pc = "send" =>
         /\ Len(prof.Sample) = Cardinality({StackOf(k) : k \in KeptDrained})
         /\ \A stack \in DOMAIN samples :
              Cardinality({i \in DOMAIN prof.Sample : prof.Sample[i].Value = samples[stack]})
                = Cardinality({st \in DOMAIN samples : samples[st] = samples[stack]})

C14_Witness ==
    /\ pc = "send"
    /\ Cardinality(KeptDrained) = 3
    /\ Len(prof.Sample) = 2
    /\ \E k1, k2 \in KeptDrained :
         k1 # k2 /\ StackOf(k1) = StackOf(k2) /\ drained[k1] # drained[k2]

\* C19 as stated: every drained tuple whose user stack is missing adds 1 to
\* missing_stacks{type=user}, and every drained tuple with kernel_sid >= 0
\* whose kernel stack is missing adds 1 to missing_stacks{type=kernel}.
C19_EveryMissingStackCounted ==
    /\ missingStacks.user = Cardinality({k \in DOMAIN drained : k[2] \notin DOMAIN stackTraces})
    /\ missingStacks.kernel =
         Cardinality({k \in DOMAIN drained : k[3] >= 0 /\ k[3] \notin DOMAIN stackTraces})

\* C19 (amended): a tuple whose user stack is missing adds exactly 1 to
\* missing_stacks{type=user} whatever its count; a tuple whose user stack is
\* there, with kernel_sid >= 0 and the kernel stack missing, adds exactly 1 to
\* missing_stacks{type=kernel}; such tuples add no sample and no location,
\* the tuples after them are handled, and the cycle ends without an error.
C19_MissingStacksCounted ==
    /\ missingStacks.user = Cardinality({k \in DOMAIN drained : k[2] \notin DOMAIN stackTraces})
    /\ missingStacks.kernel =
         Cardinality({k \in DOMAIN drained :
                        /\ k[2] \in DOMAIN stackTraces
                        /\ k[3] >= 0 /\ k[3] \notin DOMAIN stackTraces})
    /\ DOMAIN samples = {StackOf(k) : k \in KeptDrained}
    /\ DOMAIN sampleLocation = DOMAIN samples
    /\ \A key \in DOMAIN locationIndices :
         \E k \in KeptDrained : \E i \in 1..doubleStackDepth :
            /\ StackOf(k)[i] = key[2]
            /\ key[1] = IF i <= stackDepth THEN k[1] ELSE 0
    /\ pc = "send" => (drained = counts /\ loopErr = "none")

C19_Witness ==
    /\ pc = "send"
    /\ missingStacks.user = 1 /\ dropped.user = 2
    /\ missingStacks.kernel = 1 /\ dropped.kernel = 2
    /\ Cardinality(KeptDrained) = 1
    /\ \E k \in DOMAIN drained \ KeptDrained : KeyRank[k] < KeyRank[CHOOSE x \in KeptDrained : TRUE]

\* ----------------------------------------------- the profile of a cycle
\* C15: the locations are numbered 1, 2, ... in the order of the list; in the
\* profile the functions are numbered 1, 2, ... in the order of their list,
\* the kernel functions before the user functions, each function object
\* carrying the ID of its place, and the mappings are numbered 1, 2, ... in
\* the order of their list; so no two entries of a kind share an ID.
C15_IdsAreDense ==
    /\ \A i \in DOMAIN locations : locations[i].ID = i
    /\ pc = "send" =>
         /\ prof.Location = locations
         /\ \A i \in DOMAIN prof.Function : prof.Function[i].ID = i
         /\ \A i, j \in DOMAIN prof.Function :
              (prof.Function[i].key[1] = 0 /\ prof.Function[j].key[1] # 0) => i < j
         /\ Len(prof.Function)
              = Cardinality(DOMAIN kernelFunctions) + Cardinality(DOMAIN userFunctions)
         /\ \A a \in DOMAIN kernelFunctions :
              prof.Function[kernelFunctions[a].ID].key = <<0, a>>
         /\ \A u \in DOMAIN userFunctions :
              prof.Function[userFunctions[u].ID].key = u
         /\ \A i \in DOMAIN prof.Mapping : prof.Mapping[i].ID = i

C15_Witness ==
    /\ pc = "send"
    /\ Len(prof.Location) = 3
    /\ Len(prof.Function) = 3
    /\ Len(prof.Mapping) = 3

\* C16: no two locations of a cycle have the same address and the same
\* mapping (or both none); no two user functions have the same <<pid, addr>>
\* and no two kernel functions the same address.
C16_LocationsAreUnique ==
    /\ \A i, j \in DOMAIN locations :
         i # j => <<locations[i].Address, locations[i].Mapping>>
                    # <<locations[j].Address, locations[j].Mapping>>
    /\ \A i, j \in DOMAIN prof.Function :
         i # j => prof.Function[i].key # prof.Function[j].key

\* C17: a location made for a user address whose mapping was found, but
\* whose object file could not be had or did not normalize the address, has
\* the address as sampled and no mapping.
C17_NoMappingWithoutNormalization ==
    \A key \in DOMAIN locationIndices :
        (key[1] # 0 /\ procfs[key[1]].mapping \in {"no_objfile", "no_addr"}) =>
            /\ locations[locationIndices[key] + 1].Address = key[2]
            /\ locations[locationIndices[key] + 1].Mapping = Nil

\* The slots lo..hi of stack that come before its first zero slot.
LeadingFrames(stack, lo, hi) == {i \in lo..hi : \A j \in lo..i : stack[j] # 0}

\* C18: each half of a combined stack ends at its first zero slot: a sample
\* has one location per slot before it, and none for the slots after it.
C18_ZeroEndsStack ==
    \A stack \in DOMAIN sampleLocation :
        Len(sampleLocation[stack])
          = Cardinality(LeadingFrames(stack, 1, stackDepth))
            + Cardinality(LeadingFrames(stack, stackDepth + 1, doubleStackDepth))

\* C20: in the profile, the mapping of every location that has one is in the
\* list of mappings: a mapping the cycle's mapping cache handed out, or the
\* kernel mapping.
C20_LocationMappingsListed ==
    pc = "send" =>
        \A i \in DOMAIN prof.Location :
            prof.Location[i].Mapping # Nil =>
                \E j \in DOMAIN prof.Mapping :
                    /\ prof.Mapping[j].File = prof.Location[i].Mapping[1].File
                    /\ prof.Mapping[j].PID = prof.Location[i].Mapping[1].PID

C20_Witness ==
    /\ pc = "send"
    /\ \E i, j, n \in DOMAIN prof.Location :
         /\ prof.Location[i].Mapping = <<kernelMapping>>
         /\ prof.Location[j].Mapping \notin {Nil, <<kernelMapping>>}
         /\ prof.Location[n].Mapping = Nil

\* C21: the profile that is sent has the kernel mapping once, as the last
\* of its mappings, also when the cycle met no kernel frame or no tuple.
C21_KernelMappingLast ==
    pc = "send" =>
        /\ Len(prof.Mapping) >= 1
        /\ prof.Mapping[Len(prof.Mapping)].File = kernelMapping.File
        /\ Cardinality({i \in DOMAIN prof.Mapping :
                          prof.Mapping[i].File = kernelMapping.File}) = 1

C21_Witness ==
    /\ pc = "send"
    /\ kernelLocations = <<>>
    /\ Len(prof.Location) = 1
    /\ Len(prof.Mapping) = 2
    /\ prof.Mapping[2].File = kernelMapping.File

\* ----------------------------------------- the order of the locations
\* The tuples that made a sample: of the tuples with one combined stack, the
\* one drained first.
FirstOfStack ==
    {k \in KeptDrained :
        \A k2 \in KeptDrained : StackOf(k2) = StackOf(k) => KeyRank[k] <= KeyRank[k2]}

\* The frames of the slots lo..hi of stack, in slot order.
Frames(stack, lo, hi) == SelectSeq(SubSeq(stack, lo, hi), LAMBDA a : a # 0)

\* The keys the tuple of key k refers to, in the order of the two loops: the
\* frames of the kernel half under pid 0, then those of the user half.
ExpectedKeys(k) ==
    LET kf == Frames(StackOf(k), stackDepth + 1, doubleStackDepth)
        uf == Frames(StackOf(k), 1, stackDepth)
    IN  [n \in 1..(Len(kf) + Len(uf)) |->
            IF n <= Len(kf) THEN <<0, kf[n]>> ELSE <<k[1], uf[n - Len(kf)]>>]

\* The references of the tuples of S, in the order the tuples were drained.
RECURSIVE ReferencesOf(_)
ReferencesOf(S) ==
    IF S = {} THEN <<>>
    ELSE LET k == CHOOSE x \in S : \A y \in S : KeyRank[x] <= KeyRank[y]
         IN  ExpectedKeys(k) \o ReferencesOf(S \ {k})

FirstReference(refs, key) ==
    CHOOSE n \in DOMAIN refs : refs[n] = key /\ \A m \in 1..(n - 1) : refs[m] # key

\* The tuple drained first among those with a kernel frame.
WithKernelFrames ==
    {k \in FirstOfStack : Frames(StackOf(k), stackDepth + 1, doubleStackDepth) # <<>>}

FirstWithKernelFrames ==
    CHOOSE k \in WithKernelFrames : \A y \in WithKernelFrames : KeyRank[k] <= KeyRank[y]

\* C22 as stated: ... so the location of the first kernel frame of the first
\* tuple with kernel frames has the lowest ID of the locations of that tuple.
C22_FirstKernelFrameLowestOfTuple ==
    WithKernelFrames # {} =>
        LET locs == sampleLocation[StackOf(FirstWithKernelFrames)]
        IN  \A n \in DOMAIN locs :
                locations[locs[1] + 1].ID <= locations[locs[n] + 1].ID

\* C22 (amended): a sample lists the locations of the kernel half in slot
\* order, then those of the user half in slot order; the locations are
\* numbered in the order of their first reference, so the first kernel frame
\* of the first tuple with kernel frames has the lowest ID of the kernel
\* locations and of the locations that tuple is the first to refer to.
C22_KernelFirstInReferenceOrder ==
    LET refs == ReferencesOf(FirstOfStack)
    IN  /\ \A k \in FirstOfStack :
             sampleLocation[StackOf(k)]
               = [n \in DOMAIN ExpectedKeys(k) |-> locationIndices[ExpectedKeys(k)[n]]]
        /\ DOMAIN locationIndices = {refs[n] : n \in DOMAIN refs}
        /\ \A key \in DOMAIN locationIndices :
             /\ locations[locationIndices[key] + 1].ID = locationIndices[key] + 1
             /\ locationIndices[key]
                  = Cardinality({other \in DOMAIN locationIndices :
                                   FirstReference(refs, other) < FirstReference(refs, key)})
        /\ WithKernelFrames # {} =>
             LET first == ExpectedKeys(FirstWithKernelFrames)[1]
             IN  /\ kernelLocations[1] = locationIndices[first]
                 /\ \A j \in DOMAIN kernelLocations :
                        locationIndices[first] <= kernelLocations[j]
                 /\ \A key \in DOMAIN locationIndices :
                        FirstReference(refs, key) >= FirstReference(refs, first)
                            => locationIndices[first] <= locationIndices[key]

C22_Witness ==
    /\ pc = "send"
    /\ \E k \in FirstOfStack :
         /\ Len(sampleLocation[StackOf(k)]) = 4
         /\ sampleLocation[StackOf(k)][1] > sampleLocation[StackOf(k)][3]
         /\ sampleLocation[StackOf(k)][1] < sampleLocation[StackOf(k)][2]

\* The positions in locations of the kernel locations.
KernelIndices == {kernelLocations[j] : j \in DOMAIN kernelLocations}

\* C23: for a tuple with kernel_sid < 0 no kernel stack is looked up (it is
\* not counted as missing): the tuple's sample has the user stack in the
\* lower half and zeros in the upper half and none of its locations is a
\* kernel location; a cycle of such tuples alone has no kernel location and
\* no kernel address.
C23_NoKernelStackNoKernelLocation ==
    /\ \A k \in DOMAIN drained :
         (k[3] < 0 /\ k[2] \in DOMAIN stackTraces) =>
            \E stack \in DOMAIN samples :
                /\ \A i \in 1..stackDepth : stack[i] = stackTraces[k[2]][i]
                /\ \A i \in (stackDepth + 1)..doubleStackDepth : stack[i] = 0
                /\ \A n \in DOMAIN sampleLocation[stack] :
                       sampleLocation[stack][n] \notin KernelIndices
    /\ missingStacks.kernel <= Cardinality({k \in DOMAIN drained : k[3] >= 0})
    /\ (\A k \in DOMAIN drained : k[3] < 0) =>
         /\ kernelLocations = <<>>
         /\ kernelAddresses = {}
         /\ \A key \in DOMAIN locationIndices : key[1] # 0
         /\ missingStacks.kernel = 0

C23_Witness ==
    /\ pc = "send"
    /\ Cardinality(DOMAIN drained) = 2
    /\ \A k \in DOMAIN drained : k[3] < 0 /\ k[2] \in DOMAIN stackTraces
    /\ Len(locations) = 1
    /\ 1 \in DOMAIN stackTraces /\ stackTraces[1][1] # 0

\* The combined stack without a frame.
ZeroCombinedStack == [i \in 1..doubleStackDepth |-> 0]

\* The drained tuples whose stacks were found and have zeros only.
ZeroDrained == {k \in KeptDrained : StackOf(k) = ZeroCombinedStack}

\* C24: the drained tuples whose fetched stacks are all zeros are kept: they
\* give one sample without locations whose value is the sum of their counts,
\* and the profile has that sample.
C24_ZeroStackSampleRetained ==
    ZeroDrained # {} =>
        /\ ZeroCombinedStack \in DOMAIN samples
        /\ samples[ZeroCombinedStack] = SumOver(drained, ZeroDrained)
        /\ sampleLocation[ZeroCombinedStack] = <<>>
        /\ pc = "send" =>
             \E i \in DOMAIN prof.Sample :
                 /\ prof.Sample[i].Location = <<>>
                 /\ prof.Sample[i].Value = SumOver(drained, ZeroDrained)

C24_Witness ==
    /\ pc = "send"
    /\ Cardinality(ZeroDrained) = 2
    /\ Cardinality(KeptDrained) = 3
    /\ \E k1, k2 \in ZeroDrained : drained[k1] # drained[k2]
    /\ Len(prof.Sample) = 2

\* The tuple that made the sample of stack: the first drained with it.
FirstWith(stack) == CHOOSE k \in FirstOfStack : StackOf(k) = stack

\* C26: the samples are keyed by the combined stack alone: the tuples of a
\* stack, whatever their pids, are one sample with the sum of their counts,
\* whose locations are the ones of the keys (pid, address) of the tuple
\* drained first, with that pid's mapping and JIT function; a later tuple of
\* the stack interns nothing.
C26_StackAloneIsTheKey ==
    /\ DOMAIN locationIndices =
           UNION {{ExpectedKeys(k)[n] : n \in DOMAIN ExpectedKeys(k)} : k \in FirstOfStack}
    /\ \A stack \in DOMAIN samples :
         LET keys == ExpectedKeys(FirstWith(stack))
         IN  /\ samples[stack] =
                    SumOver(drained, {k \in KeptDrained : StackOf(k) = stack})
             /\ sampleLocation[stack] = [n \in DOMAIN keys |-> locationIndices[keys[n]]]
             /\ \A n \in DOMAIN keys :
                    keys[n][1] # 0 =>
                        LET l == locations[locationIndices[keys[n]] + 1]
                        IN  /\ l.Mapping = <<[File |-> "exe", PID |-> FirstWith(stack)[1]]>>
                            /\ l.Line = <<keys[n]>>

C26_Witness ==
    /\ pc = "send"
    /\ \E k1, k2 \in KeptDrained :
         /\ k1[1] < k2[1]
         /\ StackOf(k1) = StackOf(k2)
         /\ StackOf(k1)[1] # 0
         /\ drained[k1] # drained[k2]
         /\ k1 \in FirstOfStack
         /\ <<k1[1], StackOf(k1)[1]>> \in DOMAIN locationIndices
         /\ <<k2[1], StackOf(k1)[1]>> \notin DOMAIN locationIndices
    /\ Len(prof.Sample) = 1

\* The label names that start with two underscores.
Reserved(n) == Len(n) >= 2 /\ n[1] = "_" /\ n[2] = "_"

\* C25: the labels sendProfile writes are the labels of the scope whose
\* names do not start with "__", with their values, and "__name__" with the
\* value "parca_agent_cpu"; no other "__" label is among them.
C25_LabelsOfUpload ==
    pc = "sending" =>
        /\ DOMAIN labels = {NameLabel} \cup {n \in DOMAIN target : ~Reserved(n)}
        /\ labels[NameLabel] = "parca_agent_cpu"
        /\ \A n \in DOMAIN labels : n # NameLabel => labels[n] = target[n]
        /\ \A n \in DOMAIN labels : Reserved(n) => n = NameLabel

C25_Witness ==
    /\ pc = "sending"
    /\ NameLabel \in DOMAIN target /\ target[NameLabel] = "x"
    /\ <<"_", "a">> \in DOMAIN target
    /\ DOMAIN labels = {NameLabel, <<"_", "a">>}

\* C27: a request is answered once: with 400 and without a wait when its
\* selector does not parse; after the wait with 404 when no profile came
\* back or the wait was cancelled, else with 500 when an error came back,
\* else with the profile, as HTML when debug is "1" and as pprof bytes
\* otherwise.  A wait that the deadline ends is answered with 404.
C27_OneOutcomeInOrder ==
    /\ hpc # "done" => responses = <<>>
    /\ elapsed <= RequestTimeout
    /\ hpc = "done" =>
         /\ Len(responses) = 1
         /\ IF request.selector = "bad"
            THEN /\ responses[1].status = StatusBadRequest
                 /\ result = NoResult /\ elapsed = 0
            ELSE /\ result # NoResult
                 /\ IF result.profile = Nil \/ result.err = "context canceled"
                    THEN responses[1].status = StatusNotFound
                    ELSE IF result.err # "nil"
                    THEN responses[1].status = StatusInternalServerError
                    ELSE /\ responses[1].status = StatusOK
                         /\ responses[1].body = IF request.debug = "1" THEN "html" ELSE "pprof"
                 /\ result.err = "context deadline exceeded" =>
                        /\ elapsed = RequestTimeout
                        /\ responses[1].status = StatusNotFound

C27_Witness ==
    /\ hpc = "done"
    /\ request.selector = "ok"
    /\ elapsed = RequestTimeout
    /\ result = [profile |-> Nil, err |-> "context deadline exceeded"]
    /\ Len(responses) = 1
    /\ responses[1].status = StatusNotFound

\* clean has returned to profileLoop (which returns nil after it).
CleanReturned == pc = "report" /\ loopErr = "none"

\* The keys of map m that this clean call deleted.
DeletedKeys(m) ==
    {deletes[i].key : i \in {j \in DOMAIN deletes : deletes[j].map = m /\ deletes[j].ok}}

StartedEmpty == cleanStart.st = {} /\ cleanStart.cn = {}

C7_DeletionOneStepBehind ==
    /\ \A i \in DOMAIN deletes :
         LET d == deletes[i]
         IN  /\ d.cur # <<d.key>>
             /\ \E a \in DOMAIN seen :
                  /\ seen[a][1] = d.map /\ seen[a][2] = d.key
                  /\ IF d.cur # Nil
                     THEN \E b \in DOMAIN seen :
                            b > a /\ seen[b][1] = d.map /\ seen[b][2] = d.cur[1]
                     ELSE \A b \in DOMAIN seen : b > a => seen[b][1] # d.map
    /\ \A i, j \in DOMAIN deletes :
         (i # j /\ deletes[i].map = deletes[j].map) => deletes[i].key # deletes[j].key
    /\ (CleanReturned /\ cleanErr = "none") =>
         \A a \in DOMAIN seen :
           \E i \in DOMAIN deletes :
             deletes[i].ok /\ deletes[i].map = seen[a][1] /\ deletes[i].key = seen[a][2]

C7_Witness ==
    /\ CleanReturned /\ cleanErr = "none"
    /\ \E i, j \in DOMAIN deletes :
         /\ deletes[i].map = "count" /\ deletes[i].cur # Nil
         /\ deletes[j].map = "count" /\ deletes[j].cur = Nil

\* C8: the first DeleteKey that fails ends clean with that map's error: it
\* is the last call; the keys left are those clean started with less the ones
\* deleted before, the key that failed among them; a failure on stack_traces
\* leaves counts with the keys it had.
C8_DeleteFailureStopsClean ==
    /\ \A i \in DOMAIN deletes :
         ~deletes[i].ok =>
            i = Len(deletes) /\ pc = "report" /\ cleanErr = deletes[i].map
    /\ (CleanReturned /\ cleanErr # "none") =>
         /\ deletes # <<>> /\ ~deletes[Len(deletes)].ok
         /\ DOMAIN stackTraces = cleanStart.st \ DeletedKeys("stack")
         /\ DOMAIN counts = cleanStart.cn \ DeletedKeys("count")
         /\ Cardinality(DOMAIN stackTraces) + Cardinality(DOMAIN counts)
               = Cardinality(cleanStart.st) + Cardinality(cleanStart.cn)
                    - (Len(deletes) - 1)
         /\ cleanErr = "stack" =>
               /\ DOMAIN counts = cleanStart.cn
               /\ deletes[Len(deletes)].key \in DOMAIN stackTraces
               /\ \A a \in DOMAIN seen : seen[a][1] = "stack"
         /\ cleanErr = "count" =>
               /\ DOMAIN stackTraces = {}
               /\ deletes[Len(deletes)].key \in DOMAIN counts

C8_Witness ==
    /\ CleanReturned /\ cleanErr = "stack"
    /\ Len(deletes) = 2
    /\ cleanStart.cn # {}

====
